---- MODULE Spec2Model ----
(***************************************************************************)
(* A model of the Surface class of surfaces.js.  Two source files define   *)
(* it: src/unnamed/part_000 (the lodash version, called "current" here)    *)
(* and src/src/surfaces.js (the underscore version, called "legacy").      *)
(*                                                                         *)
(* A JavaScript object is a function from its own keys to values: a key a  *)
(* caller did not pass is absent from DOMAIN, which is how `!this.el` and  *)
(* `this.xResolution || this.xyResolution` see undefined.  Angles are      *)
(* integers in milliradians (0.5 rad = 500, Math.PI / 2 = 1571).  The      *)
(* libraries the class calls but does not define are symbolic:             *)
(* twoRotations.generateMatrix returns the pair of its arguments, a        *)
(* caller's color function applied to avg is the pair (function, avg).     *)
(* The sampler and the quad assembler (./util/compute,                     *)
(* ./util/generate-vis-data, ./create-plane) are modelled from sections    *)
(* 4.1, 4.3 and 4.4 of the specification.                                  *)
(***************************************************************************)
EXTENDS Integers, Sequences, FiniteSets, TLC

VARIABLES impl, phase, s, last, calls, data, visData

vars == <<impl, phase, s, last, calls, data, visData>>

\* Bounds of the model: render times are 0..MaxTime, domain ends lie in
\* -MaxCoord..MaxCoord.
MaxTime == 1
MaxCoord == 1

\* Math.PI / 2 in milliradians.
HalfPi == 1571

Min(a, b) == IF a < b THEN a ELSE b
Max(a, b) == IF a > b THEN a ELSE b

EmptyObj == [k \in {} |-> 0]

\* _.pick(object, keys)
Pick(o, keys) == [k \in (DOMAIN o \cap keys) |-> o[k]]

\* _.extend(object, source)
Extend(obj, src) ==
  [k \in (DOMAIN obj \cup DOMAIN src) |-> IF k \in DOMAIN src THEN src[k] ELSE obj[k]]

\* _.defaults(object, source, defaults) on an object whose keys are all unset
DefaultsOf(picked, defs) == Extend(defs, picked)

\* a || b for numbers: undefined and 0 are falsy
NumOr(obj, a, b) == IF a \in DOMAIN obj /\ obj[a] # 0 THEN obj[a] ELSE obj[b]

\* a || b for arrays: only undefined is falsy
ArrOr(obj, a, b) == IF a \in DOMAIN obj THEN obj[a] ELSE obj[b]

----------------------------------------------------------------------------
\* The options each version picks out of what the caller passes.

surfaceOptions ==
  {"tagName", "fn", "el", "width", "height", "colorFn", "strokeColorFn",
   "zoom", "yaw", "pitch", "xyDomain", "xyResolution", "xyScale",
   "yDomain", "yResolution", "yScale", "xDomain", "xResolution", "xScale",
   "range", "zScale", "maxPitch"}

legacySurfaceOptions ==
  {"tagName", "fn", "el", "width", "height", "colorFn", "zoom", "yaw", "pitch",
   "yInterval", "xInterval", "zInterval", "currentFrame", "maxPitch"}

defaults ==
  [tagName |-> "canvas", width |-> 300, height |-> 300, zoom |-> 1,
   yaw |-> 500, pitch |-> 500, maxPitch |-> HalfPi,
   colorFn |-> "#333", strokeColorFn |-> "rgba(0,0,0,0.4)",
   fn |-> "spacetimeOrigin",
   xyDomain |-> <<-10, 10>>, xyResolution |-> 1, xyScale |-> 300,
   range |-> <<-10, 10>>, zScale |-> 1]

legacyDefaults ==
  [width |-> 300, height |-> 300, zoom |-> 1, tagName |-> "canvas",
   yaw |-> 500, colorFn |-> "#333", pitch |-> 500,
   yInterval |-> <<-10, 10>>, xInterval |-> <<-10, 10>>, zInterval |-> <<0, 10>>,
   currentFrame |-> 0, fn |-> "spacetimeOrigin", maxPitch |-> HalfPi]

----------------------------------------------------------------------------
\* The DOM.  An element is its node name, its id, width and height attributes
\* and its content: for a canvas the shapes drawn since the bitmap was last
\* cleared, for any other element its child nodes.

\* document.createElement('canvas'): an HTML element, upper-case node name
CreateCanvas ==
  [nodeName |-> "CANVAS", id |-> "", width |-> 300, height |-> 150, content |-> <<>>]

\* document.createElementNS(SVG_NS, 'svg'): node name as given
createSvgElement(tagName) ==
  [nodeName |-> tagName, id |-> "", width |-> 0, height |-> 0, content |-> <<>>]

\* String.prototype.toLowerCase on the node names that occur
ToLowerCase(n) ==
  CASE n = "CANVAS" -> "canvas"
    [] n = "DIV" -> "div"
    [] OTHER -> n

\* twoRotations.generateMatrix(yaw, pitch)
generateMatrix(yaw, pitch) == [yaw |-> yaw, pitch |-> pitch]

\* _generateRotation
generateRotation(self) ==
  Extend(self, [_rotationMatrix |-> generateMatrix(self.yaw, self.pitch)])

\* _createElement: the element, or the error it throws
createElement(tagName) ==
  IF tagName = "svg" THEN [threw |-> "", el |-> createSvgElement("svg")]
  ELSE IF tagName = "canvas" THEN [threw |-> "", el |-> CreateCanvas]
  ELSE [threw |-> "Error: The element must be a canvas or svg.", el |-> EmptyObj]

\* _ensureElement: the object with its element, or the error
ensureElement(self) ==
  LET made == IF "el" \notin DOMAIN self
              THEN createElement(self.tagName)
              ELSE [threw |-> "", el |-> self.el]
      sized == IF ToLowerCase(made.el.nodeName) = "canvas"
               THEN [made.el EXCEPT !.width = self.width, !.height = self.height]
               ELSE made.el
  IN IF made.threw # ""
     THEN [threw |-> made.threw, self |-> self]
     ELSE [threw |-> "", self |-> Extend(self, [el |-> sized])]

\* _setType
setType(self) == Extend(self, [_type |-> ToLowerCase(self.el.nodeName)])

\* The constructor of either version: the new object, or the error.
constructor(version, options) ==
  LET filled == IF version = "current"
                THEN DefaultsOf(Pick(options, surfaceOptions), defaults)
                ELSE DefaultsOf(Pick(options, legacySurfaceOptions), legacyDefaults)
      rotated == generateRotation(Extend(filled, [_rotationMatrix |-> <<>>]))
      ensured == ensureElement(rotated)
  IN IF ensured.threw # ""
     THEN [threw |-> ensured.threw, self |-> EmptyObj]
     ELSE [threw |-> "", self |-> setType(ensured.self)]

----------------------------------------------------------------------------
\* orient

\* the clamp without its lower limit
clampPitch_NoLower(maxPitch, pitch) == Min(maxPitch, pitch)

\* the clamp of orient
clampPitch(maxPitch, pitch) == Max(-maxPitch, Min(maxPitch, pitch))

\* orient taking every key of its argument that the Surface has
orientKeys_All == {"yaw", "pitch", "maxPitch", "zoom"}

\* the keys orient takes from its argument
orientKeys == {"yaw", "pitch"}

\* orient without the recomputation of the matrix
orient_StaleMatrix(self, orientation) ==
  LET picked == Extend(self, Pick(orientation, orientKeys))
  IN [picked EXCEPT !.pitch = clampPitch(picked.maxPitch, picked.pitch)]

orient(self, orientation) ==
  LET picked == Extend(self, Pick(orientation, orientKeys))
      clamped == [picked EXCEPT !.pitch = clampPitch(picked.maxPitch, picked.pitch)]
  IN generateRotation(clamped)

----------------------------------------------------------------------------
\* Sampling and quad assembly.

\* Surface.spacetimeOrigin, the default fn: the constant-zero field
spacetimeOrigin(t, x, y) == 0

\* fn(t, x, y): the default, or the caller's time-varying plane x + y + t
applyFn(fn, t, x, y) ==
  IF fn = "spacetimeOrigin" THEN spacetimeOrigin(t, x, y) ELSE x + y + t

\* The grid points of one axis: floor((max - min) / resolution) + 1 of them.
Axis(domain, resolution) ==
  LET n == Max(0, ((domain[2] - domain[1]) \div resolution) + 1)
  IN [i \in 1..n |-> domain[1] + (i - 1) * resolution]

\* compute: the field [time][x][y], or InvalidConfig for a resolution <= 0
compute(o) ==
  IF o.resolution <= 0 \/ o.xResolution <= 0 \/ o.yResolution <= 0
  THEN [threw |-> "InvalidConfig", field |-> <<>>]
  ELSE LET ts == Axis(<<o.from, o.to>>, o.resolution)
           xs == Axis(o.xDomain, o.xResolution)
           ys == Axis(o.yDomain, o.yResolution)
       IN [threw |-> "",
           field |-> [k \in DOMAIN ts |-> [i \in DOMAIN xs |-> [j \in DOMAIN ys |->
                        applyFn(o.fn, ts[k], xs[i], ys[j])]]]]

\* generateVisData: the quads of one time slice, in row-major order.  A
\* projected point is the scaled sample with the matrix, zoom and viewport
\* centre applied to it; avg is the sum of the four corner samples over 4.
generateVisData(o) ==
  LET xs == Axis(o.xDomain, o.xResolution)
      ys == Axis(o.yDomain, o.yResolution)
      nx == Len(o.data)
      ny == IF nx = 0 THEN 0 ELSE Len(o.data[1])
      n == IF nx < 2 \/ ny < 2 THEN 0 ELSE (nx - 1) * (ny - 1)
      point(i, j) == [v |-> <<xs[i] * o.xScale, ys[j] * o.yScale, o.data[i][j] * o.zScale>>,
                      m |-> o.rotationMatrix, zoom |-> o.zoom,
                      center |-> <<o.width \div 2, o.height \div 2>>]
      quad(i, j) == [path |-> [moveTo |-> point(i, j), pointOne |-> point(i + 1, j),
                               pointTwo |-> point(i + 1, j + 1), pointThree |-> point(i, j + 1)],
                     avg |-> <<o.data[i][j] + o.data[i + 1][j]
                               + o.data[i + 1][j + 1] + o.data[i][j + 1], 4>>]
  IN [k \in 1..n |-> quad(((k - 1) \div (ny - 1)) + 1, ((k - 1) % (ny - 1)) + 1)]

\* createPlane of the legacy version: the same assembly over the sampled
\* grid, heights taken as they are
createPlane(o) ==
  generateVisData([data |-> o.data, width |-> o.width, height |-> o.height,
                   zoom |-> o.zoom, rotationMatrix |-> o.rotationMatrix,
                   xDomain |-> o.xDomain, yDomain |-> o.yDomain,
                   xResolution |-> 1, yResolution |-> 1,
                   xScale |-> 1, yScale |-> 1, zScale |-> 1])

\* _computeData
computeData(self, options) ==
  compute([fn |-> self.fn, from |-> options.from, to |-> options.to,
           resolution |-> options.resolution,
           xDomain |-> ArrOr(self, "xDomain", "xyDomain"),
           xResolution |-> NumOr(self, "xResolution", "xyResolution"),
           yDomain |-> ArrOr(self, "yDomain", "xyDomain"),
           yResolution |-> NumOr(self, "yResolution", "xyResolution")])

\* computeData of the legacy version: the field of the current frame, cached
legacyComputeData(self) ==
  Extend(self, [_cache |-> compute([fn |-> self.fn, from |-> self.currentFrame,
                                    to |-> self.currentFrame, resolution |-> 1,
                                    xDomain |-> self.xInterval, xResolution |-> 1,
                                    yDomain |-> self.yInterval, yResolution |-> 1]).field])

----------------------------------------------------------------------------
\* Painting.

\* A color function applied to avg: the two defaults are constant, a
\* caller's function is kept as the application itself.
applyColor(colorFn, avg) ==
  IF colorFn \in {"#333", "rgba(0,0,0,0.4)"}
  THEN [color |-> colorFn]
  ELSE [by |-> colorFn, of |-> avg]

\* _clearCanvas: clearRect over the whole element
clearCanvas(el) == [el EXCEPT !.content = <<>>]

\* a _clearSvg that removes nothing
clearSvg_Keep(el) == el

\* _clearSvg: removeChild until no child is left
clearSvg(el) == [el EXCEPT !.content = <<>>]

\* the stroke style the canvas loop sets for one quad
canvasStroke(self, a) ==
  IF "strokeColorFn" \in DOMAIN self
  THEN applyColor(self.strokeColorFn, a.avg)
  ELSE [color |-> "rgba(0,0,0,0.4)"]

\* one pass of the canvas loop: the path stroked and filled, its points rounded
canvasShape(self, a) ==
  [path |-> a.path, rounded |-> TRUE,
   fill |-> applyColor(self.colorFn, a.avg), stroke |-> canvasStroke(self, a)]

\* one pass of the svg loop: a path element with its d and fill attributes
svgPath(self, a) ==
  [tag |-> "path", d |-> a.path, fill |-> applyColor(self.colorFn, a.avg)]

\* a loop that runs from the last quad to the first
forEachOrder_Reversed(vis) == [k \in 1..Len(vis) |-> Len(vis) + 1 - k]

\* the order in which forEach visits visData
forEachOrder(vis) == [k \in 1..Len(vis) |-> k]

\* _renderCanvasSurface: the element afterwards and the calls made on it,
\* or the TypeError of getContext on an element that is no canvas
renderCanvasSurface(self, vis) ==
  IF self.el.nodeName # "CANVAS"
  THEN [threw |-> "TypeError: this.el.getContext is not a function",
        el |-> self.el, calls |-> <<>>]
  ELSE LET order == forEachOrder(vis)
           shapes == [k \in DOMAIN order |-> canvasShape(self, vis[order[k]])]
       IN [threw |-> "",
           el |-> [clearCanvas(self.el) EXCEPT !.content = @ \o shapes],
           calls |-> <<[op |-> "clear"]>> \o
                     [k \in DOMAIN order |->
                        [op |-> "paint", quad |-> vis[order[k]],
                         fill |-> shapes[k].fill, stroke |-> shapes[k].stroke]]]

\* _renderSvgSurface
renderSvgSurface(self, vis) ==
  LET order == forEachOrder(vis)
      paths == [k \in DOMAIN order |-> svgPath(self, vis[order[k]])]
  IN [threw |-> "",
      el |-> [clearSvg(self.el) EXCEPT !.content = @ \o paths],
      calls |-> <<[op |-> "clear"]>> \o
                [k \in DOMAIN order |->
                   [op |-> "paint", quad |-> vis[order[k]], fill |-> paths[k].fill]]]

\* options.t || 0
timeOf(options) == IF "t" \in DOMAIN options /\ options.t # 0 THEN options.t ELSE 0

\* the data render samples: one time slice at the requested time
renderData(self, options) ==
  computeData(self, [from |-> timeOf(options), to |-> timeOf(options), resolution |-> 1])

\* render: the object afterwards, the data and visData it built, the calls
\* it made on the element, and the error if it threw
render(self, options) ==
  LET sampled == renderData(self, options)
      d == sampled.field[1]
      vis == generateVisData(
               [data |-> d, height |-> self.height, width |-> self.width,
                range |-> self.range, zScale |-> self.zScale, pitch |-> self.pitch,
                xScale |-> NumOr(self, "xScale", "xyScale"),
                yScale |-> NumOr(self, "yScale", "xyScale"),
                xResolution |-> NumOr(self, "xResolution", "xyResolution"),
                yResolution |-> NumOr(self, "yResolution", "xyResolution"),
                xDomain |-> ArrOr(self, "xDomain", "xyDomain"),
                yDomain |-> ArrOr(self, "yDomain", "xyDomain"),
                zoom |-> self.zoom, rotationMatrix |-> self._rotationMatrix])
      drawn == IF self._type = "canvas"
               THEN renderCanvasSurface(self, vis)
               ELSE renderSvgSurface(self, vis)
  IN IF sampled.threw # ""
     THEN [threw |-> sampled.threw, self |-> self, data |-> <<>>, visData |-> <<>>,
           calls |-> <<>>]
     ELSE [threw |-> drawn.threw, self |-> [self EXCEPT !.el = drawn.el],
           data |-> d, visData |-> vis, calls |-> drawn.calls]

\* the field the legacy render reads: the cache, computed if there is none
legacyCached(self) == IF "_cache" \in DOMAIN self THEN self ELSE legacyComputeData(self)

\* render of the legacy version
legacyRender(self) ==
  LET cached == legacyCached(self)
      d == cached._cache[1]
      plane == createPlane([data |-> d, zoom |-> 1, height |-> cached.height,
                            width |-> cached.width,
                            rotationMatrix |-> cached._rotationMatrix,
                            xDomain |-> <<1, Len(d)>>,
                            yDomain |-> <<1, IF Len(d) = 0 THEN 0 ELSE Len(d[1])>>])
      drawn == renderCanvasSurface(cached, plane)
  IN [threw |-> drawn.threw, self |-> [cached EXCEPT !.el = drawn.el],
      data |-> d, visData |-> plane, calls |-> drawn.calls]

----------------------------------------------------------------------------
\* What callers pass.

\* Elements a caller hands over as el: a blank canvas, an svg that already
\* holds a child, and a div.
SuppliedEls ==
  {[nodeName |-> "CANVAS", id |-> "chart", width |-> 300, height |-> 150, content |-> <<>>],
   [nodeName |-> "svg", id |-> "chart", width |-> 0, height |-> 0,
    content |-> <<[tag |-> "g"]>>],
   [nodeName |-> "DIV", id |-> "chart", width |-> 0, height |-> 0, content |-> <<>>]}

\* Every construction names its domain, so that grids stay small.
BaseOptions ==
  [xyDomain |-> <<-MaxCoord, MaxCoord>>,
   xInterval |-> <<-MaxCoord, MaxCoord>>, yInterval |-> <<-MaxCoord, MaxCoord>>]

KindOptions ==
  {EmptyObj, [tagName |-> "svg"], [tagName |-> "div"]} \cup {[el |-> e] : e \in SuppliedEls}

OrientationOptions ==
  {[pitch |-> 10000], [maxPitch |-> -1000], [yaw |-> 0, pitch |-> 0]}

SamplingOptions ==
  {[fn |-> "plane"],
   [fn |-> "plane", currentFrame |-> MaxTime, xyResolution |-> 2],
   [xyResolution |-> 0], [xResolution |-> 0], [yResolution |-> -1],
   [xyDomain |-> <<MaxCoord, MaxCoord>>, xInterval |-> <<MaxCoord, MaxCoord>>],
   [xDomain |-> <<MaxCoord, 0>>, yInterval |-> <<MaxCoord, 0>>]}

ColorOptions == {[colorFn |-> "heat", strokeColorFn |-> "edge"]}

Options ==
  {Extend(BaseOptions, k) : k \in KindOptions} \cup
  {Extend(BaseOptions, o) : o \in OrientationOptions \cup SamplingOptions} \cup
  {Extend(Extend(BaseOptions, k), o) :
     k \in {EmptyObj, [tagName |-> "svg"]}, o \in ColorOptions}

\* Arguments of orient: nothing, a pitch beyond either limit, a pitch within
\* them, with and without a yaw, and keys orient does not know.
OrientArgs ==
  {EmptyObj,
   [pitch |-> 10000],
   [yaw |-> 1000, pitch |-> -10000],
   [pitch |-> 300, maxPitch |-> 200, zoom |-> 2]}

RenderArgs(version) ==
  IF version = "current"
  THEN {EmptyObj, [t |-> 0], [t |-> MaxTime]}
  ELSE {EmptyObj}

\* The sampling properties a caller assigns on a live Surface.
Assignments(version) ==
  IF version = "current"
  THEN {[fn |-> "plane"], [xyResolution |-> 2]}
  ELSE {[fn |-> "plane"], [currentFrame |-> MaxTime]}

----------------------------------------------------------------------------
\* The state machine.

NoOp == [op |-> "none", arg |-> EmptyObj, threw |-> ""]

Init ==
  /\ impl \in {"current", "legacy"}
  /\ phase = "new"
  /\ s = EmptyObj
  /\ last = NoOp
  /\ calls = <<>>
  /\ data = <<>>
  /\ visData = <<>>

\* new Surface(options)
Construct ==
  /\ phase = "new"
  /\ \E options \in Options :
       LET r == constructor(impl, options)
       IN /\ phase' = IF r.threw = "" THEN "live" ELSE "failed"
          /\ s' = r.self
          /\ last' = [op |-> "construct", arg |-> options, threw |-> r.threw]
  /\ UNCHANGED <<impl, calls, data, visData>>

\* surface.orient(orientation)
Orient ==
  /\ phase = "live"
  /\ \E o \in OrientArgs :
       /\ s' = orient(s, o)
       /\ last' = [op |-> "orient", arg |-> o, threw |-> ""]
  /\ UNCHANGED <<impl, phase, calls, data, visData>>

\* surface.render(options)
Render ==
  /\ phase = "live"
  /\ \E options \in RenderArgs(impl) :
       LET r == IF impl = "current" THEN render(s, options) ELSE legacyRender(s)
       IN /\ s' = r.self
          /\ calls' = r.calls
          /\ data' = r.data
          /\ visData' = r.visData
          /\ last' = [op |-> "render", arg |-> options, threw |-> r.threw]
  /\ UNCHANGED <<impl, phase>>

\* surface.computeData() of the legacy version
ComputeData ==
  /\ phase = "live"
  /\ impl = "legacy"
  /\ s' = legacyComputeData(s)
  /\ last' = [op |-> "computeData", arg |-> EmptyObj, threw |-> ""]
  /\ UNCHANGED <<impl, phase, calls, data, visData>>

\* surface.fn = ..., surface.xyResolution = ..., surface.currentFrame = ...
Reconfigure ==
  /\ phase = "live"
  /\ \E a \in Assignments(impl) :
       /\ s' = Extend(s, a)
       /\ last' = [op |-> "assign", arg |-> a, threw |-> ""]
  /\ UNCHANGED <<impl, phase, calls, data, visData>>

Next == Construct \/ Orient \/ Render \/ ComputeData \/ Reconfigure

Spec == Init /\ [][Next]_vars

----------------------------------------------------------------------------
\* Properties.

Live == phase = "live"

InRange(self) == -self.maxPitch <= self.pitch /\ self.pitch <= self.maxPitch

\* the stroke color function a Surface is configured with, or the default
StrokeFnOf(self) ==
  IF "strokeColorFn" \in DOMAIN self THEN self.strokeColorFn ELSE "rgba(0,0,0,0.4)"

\* the path a drawn shape or a path element carries
PathOf(c) == IF "d" \in DOMAIN c THEN c.d ELSE c.path

\* C1: orient stores pitch = min(maxPitch, max(-maxPitch, p)) when
\* maxPitch >= 0, p being the pitch of the argument or else the stored
\* pitch; and a pitch once within the limits stays within them.
C1_OrientClampsPitch ==
  [][
      /\ (last'.op = "orient" /\ s.maxPitch >= 0) =>
            LET p == IF "pitch" \in DOMAIN last'.arg THEN last'.arg.pitch ELSE s.pitch
            IN (s'.pitch = Min(s.maxPitch, Max(-s.maxPitch, p)) /\ InRange(s'))
      /\ (Live /\ s.maxPitch >= 0 /\ InRange(s)) => InRange(s')
    ]_vars

\* orient({pitch: 10}) with maxPitch = pi/2 has stored exactly pi/2
C1_Witness ==
  /\ Live /\ last.op = "orient"
  /\ "pitch" \in DOMAIN last.arg /\ last.arg.pitch = 10000
  /\ s.maxPitch = HalfPi /\ s.pitch = HalfPi

\* C2: no Surface is live with a _type other than canvas or svg: a
\* construction that asks for another kind, by tagName or by el, fails.
C2_OnlyCanvasOrSvg == Live => s._type \in {"canvas", "svg"}

\* whether the options a version picks hold a resolution <= 0 or a domain
\* with min >= max
BadConfig(version, options) ==
  LET o == Pick(options, IF version = "current" THEN surfaceOptions
                                                ELSE legacySurfaceOptions)
  IN \/ \E k \in DOMAIN o \cap {"xyResolution", "xResolution", "yResolution"} : o[k] <= 0
     \/ \E k \in DOMAIN o \cap {"xyDomain", "xDomain", "yDomain", "xInterval", "yInterval"} :
          o[k][1] >= o[k][2]

\* C3: a construction with a non-positive resolution or an empty domain
\* fails with InvalidConfig.
C3_InvalidConfigRejected ==
  (last.op = "construct" /\ BadConfig(impl, last.arg)) =>
     (phase = "failed" /\ last.threw = "InvalidConfig")

\* C4: a render that completes has cleared the target once, first, and then
\* painted every quad of its visData once, the k-th paint being the k-th quad.
C4_ClearThenPaintInOrder ==
  (Live /\ last.op = "render" /\ last.threw = "") =>
     /\ Len(calls) = Len(visData) + 1
     /\ calls[1].op = "clear"
     /\ \A k \in 1..Len(visData) :
          calls[k + 1].op = "paint" /\ calls[k + 1].quad = visData[k]

\* an svg render of several distinct quads
C4_Witness ==
  /\ Live /\ last.op = "render" /\ last.threw = ""
  /\ s._type = "svg"
  /\ Len(visData) >= 2 /\ visData[1] # visData[2]
  /\ Len(calls) = Len(visData) + 1

\* the field a render at this moment has to sample
FreshData ==
  IF impl = "current"
  THEN renderData(s, last.arg).field[1]
  ELSE compute([fn |-> s.fn, from |-> s.currentFrame, to |-> s.currentFrame,
                resolution |-> 1, xDomain |-> s.xInterval, xResolution |-> 1,
                yDomain |-> s.yInterval, yResolution |-> 1]).field[1]

\* C5: the data a completed render painted is the field of the current fn,
\* domain and resolution at the requested time.
C5_RenderDataNeverStale ==
  (Live /\ last.op = "render" /\ last.threw = "") => data = FreshData

\* C6: the stored matrix is generateMatrix(yaw, pitch) of the stored yaw and
\* pitch, and it is the matrix of every point a render projected.
C6_MatrixFollowsOrientation ==
  Live =>
    /\ s._rotationMatrix = generateMatrix(s.yaw, s.pitch)
    /\ (last.op = "render" /\ last.threw = "") =>
          \A k \in 1..Len(visData) :
            \A c \in {"moveTo", "pointOne", "pointTwo", "pointThree"} :
              visData[k].path[c].m = generateMatrix(s.yaw, s.pitch)

\* a render after an orient that changed both yaw and pitch
C6_Witness ==
  /\ Live /\ last.op = "render" /\ last.threw = ""
  /\ Len(visData) > 0
  /\ s.yaw = 1000 /\ s.pitch = -HalfPi
  /\ visData[1].path.moveTo.m = [yaw |-> 1000, pitch |-> -HalfPi]

\* C7: the pitch the matrix was built from lies within [-maxPitch, maxPitch].
C7_BuilderPitchInRange ==
  (Live /\ s.maxPitch >= 0) =>
     (-s.maxPitch <= s._rotationMatrix.pitch /\ s._rotationMatrix.pitch <= s.maxPitch)

\* C8: every paint of a render applies colorFn(avg) as fill and
\* strokeColorFn(avg) as stroke.
C8_FillAndStrokeFromColorFns ==
  (Live /\ last.op = "render" /\ last.threw = "") =>
     \A k \in 1..Len(calls) :
       calls[k].op = "paint" =>
         /\ calls[k].fill = applyColor(s.colorFn, calls[k].quad.avg)
         /\ "stroke" \in DOMAIN calls[k]
         /\ calls[k].stroke = applyColor(StrokeFnOf(s), calls[k].quad.avg)

\* C9: orient changes yaw, pitch and the matrix only, whatever keys its
\* argument has, and leaves yaw alone when the argument has none.
C9_OrientFrame ==
  [][last'.op = "orient" =>
       /\ DOMAIN s' = DOMAIN s
       /\ \A k \in DOMAIN s \ {"yaw", "pitch", "_rotationMatrix"} : s'[k] = s[k]
       /\ ("yaw" \notin DOMAIN last'.arg) => s'.yaw = s.yaw
       /\ UNCHANGED <<impl, phase, calls, data, visData>>]_vars

\* an orient whose argument carried maxPitch and zoom and changed neither
C9_Witness ==
  /\ Live /\ last.op = "orient"
  /\ "maxPitch" \in DOMAIN last.arg /\ last.arg.maxPitch # s.maxPitch
  /\ "zoom" \in DOMAIN last.arg /\ last.arg.zoom # s.zoom
  /\ s.pitch = last.arg.pitch

\* C10: a render leaves every property of the Surface but the element's
\* content (and the legacy cache) as it was, and a render that completes
\* leaves in the element exactly the quads of its visData, in order.
C10_RenderReplaces ==
  [][last'.op = "render" =>
       /\ DOMAIN s' \ {"_cache"} = DOMAIN s \ {"_cache"}
       /\ \A k \in DOMAIN s \ {"el", "_cache"} : s'[k] = s[k]
       /\ [s'.el EXCEPT !.content = <<>>] = [s.el EXCEPT !.content = <<>>]
       /\ UNCHANGED <<impl, phase>>
       /\ (last'.threw = "") =>
             /\ Len(s'.el.content) = Len(visData')
             /\ \A k \in 1..Len(visData') : PathOf(s'.el.content[k]) = visData'[k].path]_vars

\* a completed render onto the supplied svg element, which held a child
\* before: it holds the quads of the render and nothing else
C10_Witness ==
  /\ Live /\ last.op = "render" /\ last.threw = ""
  /\ s.el.nodeName = "svg" /\ s.el.id = "chart"
  /\ Len(visData) > 0
  /\ Len(s.el.content) = Len(visData)
  /\ \A k \in 1..Len(visData) : s.el.content[k].tag = "path"

====
